---- MODULE Spec2Model ----
(***************************************************************************)
(* Node-lifecycle orchestration core of the network runner.                *)
(*                                                                         *)
(*   - the Local Network Manager (package localnetworkrunner): the node    *)
(*     map, the name counter, AddNode / RemoveNode / Stop, executed step   *)
(*     by step by several goroutines, since the manager holds no lock;     *)
(*   - the control server's wrapper (package server): start, waitForHealthy*)
(*     and stop, with the channels readyc, stopc, donec, errc and the two  *)
(*     sync.Once guards;                                                   *)
(*   - waitNode, the single-node health wait.                              *)
(***************************************************************************)
EXTENDS Integers, Sequences, FiniteSets, TLC

(***************************************************************************)
(* Bounds of the model.                                                    *)
(***************************************************************************)
\* goroutines that issue requests (manager calls, or server stop() calls)
NumThreads == 2
\* manager calls issued by the request goroutines over one run
MaxCalls == 3

\* the request goroutines
Threads == 1..NumThreads
\* the goroutine of "go lc.start()"
StartThread == 0
AllThreads == {StartThread} \cup Threads

\* names a caller may give a node explicitly ("" in node.Config means none)
ExplicitNames == {"2", "a"}

\* nodes of the control server's cluster (numNodes of newNetwork)
NumNodes == 2

\* color pickers in use at once, and the colors the pickers support
NumPickers == 2
NumColors == 3

Pickers == 1..NumPickers

VARIABLES
    \* ---- localNetwork (manager) --------------------------------------
    nextIntNodeID,  \* next id to be used in internal node id generation
    nodes,          \* map[string]*localNode: name -> [id, pid]
    procs,          \* the spawned processes, by pid: [signalled, sigterm, wsClosed]
    fatal,          \* why the Go runtime aborted the program ("" while it runs)
    \* ---- goroutines -----------------------------------------------------
    pc,             \* position of each goroutine
    stack,          \* return positions of the calls in progress
    arg,            \* AddNode: nodeConfig.Name;  RemoveNode: nodeID
    nodeID,         \* AddNode's local nodeID
    tmp,            \* the counter value loaded by "nextIntNodeID += 1"
    node,           \* AddNode: pid of cmd;  RemoveNode: pid of node.cmd
    files,          \* files the AddNode in progress has created, in order
    cfgIdx,         \* NewNetwork: index of the node config being added
    visited,        \* Stop: keys the range loop has produced
    res,            \* what the call inside the request returned last
    \* ---- observation of the requests (history, not program state) ---
    call,           \* the request in progress: [op, arg, pre]
    last,           \* the request that completed last: [op, arg, res, had, node]
    prev,           \* the request that completed before it
    adds,           \* the names AddNode settled on: [explicit, id]
    nCalls,         \* requests issued so far
    \* ---- server.localNetwork (control server) -----------------------
    nw,             \* lc.nw: "nil" until start() has created the network
    readyc,         \* closed when local network is ready/healthy
    readycCloseOnce,\* sync.Once: has run
    stopc,          \* closed by stop()
    donec,          \* closed when start() returns
    errc,           \* chan error, buffered
    stopOnce,       \* sync.Once: "fresh", "running" or "done"
    nodeInfos,      \* node name -> [uri, id] (TRUE once filled in)
    apiClis,        \* names of the nodes whose API client is recorded
    stopCalls,      \* calls of lc.nw.Stop made so far
    stopInWait,     \* stopc was closed while waitForHealthy was in its select
    \* ---- waitNode ------------------------------------------------------
    wnPc,           \* position in waitNode
    elapsed,        \* time.Since(t0), in seconds
    nodeIsUp,       \* waitNode's nodeIsUp
    round,          \* answers of the bootstrap queries of the current round
    wnRes,          \* what waitNode returned
    \* ---- waitForHealthy's select ----------------------------------------
    hcErr,          \* err of "case err := <-hc": "none" until hc was received
    selReady,       \* the cases that could proceed when the select ran
    \* ---- GetNodesIDs ---------------------------------------------------
    ks,             \* per goroutine: the slice its GetNodesIDs builds and returns
    \* ---- localNetwork.Ready -------------------------------------------
    rdPc,           \* position of the goroutine Ready starts
    rdVisited,      \* keys its range loop has produced
    rdCur,          \* id of the node it is waiting for
    rdDown,         \* nodes whose waitNode returned false
    readyCh,        \* closed?
    errorCh,        \* the error the goroutine is blocked sending (unbuffered)
    rdErrs,         \* the errors the caller has received from errorCh
    \* ---- example programs: run and shutdownOnSignal -------------------
    runPc,          \* position of run()
    runRes,         \* what run() returned
    sigPc,          \* position of shutdownOnSignal ("none": not called)
    sig,            \* its local sig: "none", a signal, or "nil" (zero value)
    signalsChan,    \* [buf: the signals buffered, closed, notify: registered]
    closedOnShutdownCh, \* closed?
    exStops,        \* calls of n.Stop: [shutdown: by shutdownOnSignal, defer: by run]
    \* ---- utils: the color pickers -------------------------------------
    usedIndex,      \* per picker: -1 until created, then the calls made so far
    returned,       \* per picker: the colors NextColor has returned, in order
    \* ---- control: streamStatusFunc and the status stream --------------
    ssPc,           \* position of streamStatusFunc
    ssRes,          \* what it returned
    cliOpen,        \* the client connection is open (client.New .. cli.Close)
    wPc,            \* position of the signal-watcher goroutine ("none": not started)
    sigc,           \* signals buffered in sigc
    ctxDone,        \* the request context is cancelled or past its deadline
    ssDonec,        \* donec of streamStatusFunc is closed
    prodPc,         \* the stream's producer: "none", "tick", "send" or "end"
    ticker,         \* its ticking resource: "none", "running" or "stopped"
    chClosed,       \* the stream channel ch is closed
    sent,           \* snapshots the producer has produced
    printed,        \* snapshots streamStatusFunc has printed
    printedAtDone   \* printed when ctx became done (-1 before)

varsMgr == <<nextIntNodeID, nodes, procs, fatal>>
varsLoc == <<nodeID, tmp, node, files, cfgIdx, visited>>
varsThr == <<pc, stack, arg, res, varsLoc>>
varsObs == <<call, last, prev, adds, nCalls>>
varsSrv == <<nw, readyc, readycCloseOnce, stopc, donec, errc, stopOnce,
             nodeInfos, apiClis, stopCalls, stopInWait>>
varsWait == <<wnPc, elapsed, nodeIsUp, round, wnRes>>
varsReady == <<rdPc, rdVisited, rdCur, rdDown, readyCh, errorCh, rdErrs>>
varsEx == <<runPc, runRes, sigPc, sig, signalsChan, closedOnShutdownCh, exStops>>
varsColor == <<usedIndex, returned>>
varsStream == <<ssPc, ssRes, cliOpen, wPc, sigc, ctxDone, ssDonec, prodPc, ticker,
                chClosed, sent, printed, printedAtDone>>
varsExtRest == <<varsReady, varsEx, varsColor, varsStream>>
varsSel == <<hcErr, selReady>>
varsLookup == <<ks>>
varsExt == <<varsSel, varsLookup, varsExtRest>>
vars == <<varsMgr, varsThr, varsObs, varsSrv, varsWait, varsExt>>

(***************************************************************************)
(* fmt.Sprint of an unsigned integer: its decimal digits.                  *)
(***************************************************************************)
Digits == <<"0", "1", "2", "3", "4", "5", "6", "7", "8", "9">>

RECURSIVE Sprint(_)
Sprint(n) ==
    IF n < 10 THEN Digits[n + 1]
    ELSE Sprint(n \div 10) \o Digits[(n % 10) + 1]

\* fmt.Sprintf("node%d", i+1): the names newNetwork gives the cluster's nodes
NodeName(k) == "node" \o Sprint(k)

NodeNames == {NodeName(k) : k \in 1..NumNodes}

\* names RemoveNode may be asked for
Names == ExplicitNames \cup {Sprint(k) : k \in 1..MaxCalls}

Snapshot == [nodes |-> nodes, procs |-> procs, counter |-> nextIntNodeID]

NoSnapshot == [nodes |-> <<>>, procs |-> <<>>, counter |-> 0]

NoCall == [op |-> "none", arg |-> "", pre |-> NoSnapshot]

NoRequest == [op |-> "none", arg |-> "", res |-> "none", had |-> FALSE, node |-> 0]

\* Go map operations on a function
MapSet(m, k, v) == [x \in DOMAIN m \cup {k} |-> IF x = k THEN v ELSE m[x]]

MapDeleteNothing(m, k) == m

MapDelete(m, k) == [x \in DOMAIN m \ {k} |-> m[x]]

Init ==
    /\ nextIntNodeID = 1
    /\ nodes = <<>>
    /\ procs = <<>>
    /\ fatal = ""
    /\ pc = [t \in AllThreads |-> "idle"]
    /\ stack = [t \in AllThreads |-> <<>>]
    /\ arg = [t \in AllThreads |-> ""]
    /\ nodeID = [t \in AllThreads |-> ""]
    /\ tmp = [t \in AllThreads |-> 0]
    /\ node = [t \in AllThreads |-> 0]
    /\ files = [t \in AllThreads |-> <<>>]
    /\ cfgIdx = [t \in AllThreads |-> 0]
    /\ visited = [t \in AllThreads |-> {}]
    /\ res = [t \in AllThreads |-> "none"]
    /\ call = [t \in AllThreads |-> NoCall]
    /\ last = NoRequest
    /\ prev = NoRequest
    /\ adds = <<>>
    /\ nCalls = 0
    /\ nw = "nil"
    /\ readyc = FALSE
    /\ readycCloseOnce = FALSE
    /\ stopc = FALSE
    /\ donec = FALSE
    /\ errc = <<>>
    /\ stopOnce = "fresh"
    /\ nodeInfos = [n \in NodeNames |-> [uri |-> FALSE, id |-> FALSE]]
    /\ apiClis = {}
    /\ stopCalls = 0
    /\ stopInWait = FALSE
    /\ wnPc = "idle"
    /\ elapsed = 0
    /\ nodeIsUp = FALSE
    /\ round = <<>>
    /\ wnRes = "none"
    /\ hcErr = "none"
    /\ selReady = {}
    /\ ks = [t \in AllThreads |-> <<>>]
    /\ rdPc = "idle"
    /\ rdVisited = {}
    /\ rdCur = ""
    /\ rdDown = {}
    /\ readyCh = FALSE
    /\ errorCh = <<>>
    /\ rdErrs = {}
    /\ runPc = "idle"
    /\ runRes = "none"
    /\ sigPc = "none"
    /\ sig = "none"
    /\ signalsChan = [buf |-> <<>>, closed |-> FALSE, notify |-> FALSE]
    /\ closedOnShutdownCh = FALSE
    /\ exStops = [shutdown |-> 0, defer |-> 0]
    /\ usedIndex = [p \in Pickers |-> -1]
    /\ returned = [p \in Pickers |-> <<>>]
    /\ ssPc = "idle"
    /\ ssRes = "none"
    /\ cliOpen = FALSE
    /\ wPc = "none"
    /\ sigc = 0
    /\ ctxDone = FALSE
    /\ ssDonec = FALSE
    /\ prodPc = "none"
    /\ ticker = "none"
    /\ chClosed = FALSE
    /\ sent = 0
    /\ printed = 0
    /\ printedAtDone = -1

(***************************************************************************)
(* Calls and returns.                                                      *)
(***************************************************************************)
At(t, l) == fatal = "" /\ pc[t] = l

Goto(t, l) == pc' = [pc EXCEPT ![t] = l]

\* Return r from the function goroutine t is in, to the position on top of
\* its stack.  "idle" ends the request: its result goes to the requester
\* (recorded as the last request) and the goroutine's locals die.
Return(t, r) ==
    /\ res' = [res EXCEPT ![t] = IF Head(stack[t]) = "idle" THEN "none" ELSE r]
    /\ pc' = [pc EXCEPT ![t] = Head(stack[t])]
    /\ stack' = [stack EXCEPT ![t] = Tail(stack[t])]
    /\ IF Head(stack[t]) = "idle"
       THEN /\ last' = [op |-> call[t].op, arg |-> call[t].arg, res |-> r,
                        had |-> call[t].arg \in DOMAIN call[t].pre.nodes,
                        node |-> node[t]]
            /\ prev' = last
            /\ call' = [call EXCEPT ![t] = NoCall]
            /\ arg' = [arg EXCEPT ![t] = ""]
            /\ nodeID' = [nodeID EXCEPT ![t] = ""]
            /\ tmp' = [tmp EXCEPT ![t] = 0]
            /\ node' = [node EXCEPT ![t] = 0]
            /\ files' = [files EXCEPT ![t] = <<>>]
            /\ cfgIdx' = [cfgIdx EXCEPT ![t] = 0]
            /\ visited' = [visited EXCEPT ![t] = {}]
       ELSE UNCHANGED <<last, prev, call, arg, varsLoc>>

\* goroutine t issues request op(a)
Issue(t, op, a) ==
    /\ At(t, "idle")
    /\ nCalls < MaxCalls
    /\ nCalls' = nCalls + 1
    /\ call' = [call EXCEPT ![t] = [op |-> op, arg |-> a, pre |-> Snapshot]]
    /\ stack' = [stack EXCEPT ![t] = <<"idle">>]
    /\ arg' = [arg EXCEPT ![t] = a]

(***************************************************************************)
(* localNetwork.AddNode                                                    *)
(***************************************************************************)
CallAddNode(t) ==
    \E name \in ExplicitNames \cup {""} :
        /\ Issue(t, "AddNode", name)
        /\ Goto(t, "add_alloc")
        /\ UNCHANGED <<varsMgr, varsLoc, res, last, prev, adds, varsSrv, varsWait, varsExt>>

\* nodeID := fmt.Sprint(net.nextIntNodeID)
AddNodeAlloc(t) ==
    /\ At(t, "add_alloc")
    /\ nodeID' = [nodeID EXCEPT ![t] = Sprint(nextIntNodeID)]
    /\ Goto(t, "add_incr_load")
    /\ UNCHANGED <<varsMgr, stack, arg, res, tmp, node, files, cfgIdx, visited, varsObs, varsSrv, varsWait, varsExt>>

\* net.nextIntNodeID += 1 is a load and a store, with no lock held
AddNodeIncrLoad(t) ==
    /\ At(t, "add_incr_load")
    /\ tmp' = [tmp EXCEPT ![t] = nextIntNodeID]
    /\ Goto(t, "add_incr_store")
    /\ UNCHANGED <<varsMgr, stack, arg, res, nodeID, node, files, cfgIdx, visited, varsObs, varsSrv, varsWait, varsExt>>

IncrStuck(n) == n

\* += 1
Incr(n) == n + 1

AddNodeIncrStore(t) ==
    /\ At(t, "add_incr_store")
    /\ nextIntNodeID' = Incr(tmp[t])
    /\ Goto(t, "add_name")
    /\ UNCHANGED <<nodes, procs, fatal, stack, arg, res, varsLoc, varsObs, varsSrv, varsWait, varsExt>>

NameNeverTaken(name) == FALSE

\* if _, ok := net.nodes[nodeConfig.Name]; ok
NameTaken(name) == name \in DOMAIN nodes

\* if nodeConfig.Name != "" { if taken { return err }; nodeID = nodeConfig.Name }
AddNodeName(t) ==
    /\ At(t, "add_name")
    /\ IF arg[t] # "" /\ NameTaken(arg[t])
       THEN /\ Return(t, "NameConflict")
            /\ UNCHANGED adds
       ELSE /\ nodeID' = [nodeID EXCEPT ![t] = IF arg[t] # "" THEN arg[t] ELSE @]
            /\ adds' = Append(adds, [explicit |-> arg[t],
                                     id |-> IF arg[t] # "" THEN arg[t] ELSE nodeID[t]])
            /\ Goto(t, "add_files")
            /\ UNCHANGED <<stack, arg, res, tmp, node, files, cfgIdx, visited, last, prev, call>>
    /\ UNCHANGED <<varsMgr, nCalls, varsSrv, varsWait, varsExt>>

\* the files AddNode creates, in the order it creates them; the cert and the
\* key only when the node does not generate them itself (usesEphemeralCert)
NodeFiles(usesEphemeralCert) ==
    <<"config", "cconfig", "genesis">>
        \o (IF usesEphemeralCert THEN <<>> ELSE <<"cert", "key">>)

\* the checks of the node config between the file writes: the error returns
\* that are not a failed createFile, by the number of files written before
\* (Type, ConfigFlags, ChainConfigDirKey; GenesisConfigFileKey; Cert and
\* StakingCertPathKey; PrivateKey and StakingKeyPathKey; PublicIPKey and
\* HTTPPortKey).  Nothing is checked between config.json and C/config.json.
ConfigChecksAfter(usesEphemeralCert) ==
    IF usesEphemeralCert THEN {0, 2, 3} ELSE {0, 2, 3, 4, 5}

\* from the validation of the config to NewAPIClient: the files are written
\* one after the other, and the first failed check or createFile returns
AddNodeFiles(t) ==
    /\ At(t, "add_files")
    /\ \E usesEphemeralCert \in BOOLEAN :
       \E k \in 0..Len(NodeFiles(usesEphemeralCert)) :
       \E outcome \in {"ok", "Validation", "FileError"} :
         /\ outcome = "ok" => k = Len(NodeFiles(usesEphemeralCert))
         /\ outcome = "Validation" => k \in ConfigChecksAfter(usesEphemeralCert)
         /\ outcome = "FileError" => k < Len(NodeFiles(usesEphemeralCert))
         /\ IF outcome = "ok"
            THEN /\ files' = [files EXCEPT ![t] = NodeFiles(usesEphemeralCert)]
                 /\ Goto(t, "add_spawn")
                 /\ UNCHANGED <<stack, arg, res, nodeID, tmp, node, cfgIdx, visited, last, prev, call>>
            ELSE Return(t, outcome)
    /\ UNCHANGED <<varsMgr, adds, nCalls, varsSrv, varsWait, varsExt>>

AddNodeSpawnFirst(t) ==
    /\ At(t, "add_spawn")
    /\ \E binOk \in BOOLEAN, started \in BOOLEAN :
         IF ~started
         THEN Return(t, "ProcessError") /\ UNCHANGED procs
         ELSE /\ procs' = Append(procs, [signalled |-> 0, sigterm |-> 0, wsClosed |-> FALSE])
              /\ IF ~binOk
                 THEN Return(t, "Validation")
                 ELSE /\ node' = [node EXCEPT ![t] = Len(procs) + 1]
                      /\ Goto(t, "add_record")
                      /\ UNCHANGED <<stack, arg, res, nodeID, tmp, files, cfgIdx,
                                     visited, last, prev, call>>
    /\ UNCHANGED <<nextIntNodeID, nodes, fatal, adds, nCalls, varsSrv, varsWait, varsExt>>

\* binMap lookup and cmd.Start()
AddNodeSpawn(t) ==
    /\ At(t, "add_spawn")
    /\ \E binOk \in BOOLEAN, started \in BOOLEAN :
         IF ~binOk
         THEN Return(t, "Validation") /\ UNCHANGED procs
         ELSE IF ~started
         THEN Return(t, "ProcessError") /\ UNCHANGED procs
         ELSE /\ procs' = Append(procs, [signalled |-> 0, sigterm |-> 0, wsClosed |-> FALSE])
              /\ node' = [node EXCEPT ![t] = Len(procs) + 1]
              /\ Goto(t, "add_record")
              /\ UNCHANGED <<stack, arg, res, nodeID, tmp, files, cfgIdx, visited, last, prev, call>>
    /\ UNCHANGED <<nextIntNodeID, nodes, fatal, adds, nCalls, varsSrv, varsWait, varsExt>>

RecordKeyConfigName(t) == arg[t]

\* the key of net.nodes[nodeID] = node
RecordKey(t) == nodeID[t]

\* node := &localNode{id: nodeID, ...}; net.nodes[nodeID] = node; return node, nil
AddNodeRecord(t) ==
    /\ At(t, "add_record")
    /\ nodes' = MapSet(nodes, RecordKey(t), [id |-> nodeID[t], pid |-> node[t]])
    /\ Return(t, "ok")
    /\ UNCHANGED <<nextIntNodeID, procs, fatal, adds, nCalls, varsSrv, varsWait, varsExt>>

(***************************************************************************)
(* localNetwork.RemoveNode                                                 *)
(***************************************************************************)
CallRemoveNode(t) ==
    \E name \in Names :
        /\ Issue(t, "RemoveNode", name)
        /\ Goto(t, "rm_lookup")
        /\ UNCHANGED <<varsMgr, varsLoc, res, last, prev, adds, varsSrv, varsWait, varsExt>>

\* node, ok := net.nodes[nodeID]; if !ok { return err }
RemoveNodeLookup(t) ==
    /\ At(t, "rm_lookup")
    /\ IF arg[t] \in DOMAIN nodes
       THEN /\ node' = [node EXCEPT ![t] = nodes[arg[t]].pid]
            /\ Goto(t, "rm_delete")
            /\ UNCHANGED <<stack, arg, res, nodeID, tmp, files, cfgIdx, visited, last, prev, call>>
       ELSE Return(t, "NotFound")
    /\ UNCHANGED <<varsMgr, adds, nCalls, varsSrv, varsWait, varsExt>>

\* delete(net.nodes, nodeID)
RemoveNodeDelete(t) ==
    /\ At(t, "rm_delete")
    /\ nodes' = MapDelete(nodes, arg[t])
    /\ Goto(t, "rm_close")
    /\ UNCHANGED <<nextIntNodeID, procs, fatal, stack, arg, res, varsLoc, varsObs, varsSrv, varsWait, varsExt>>

RemoveNodeCloseSkipped(t) ==
    /\ At(t, "rm_close")
    /\ Goto(t, "rm_signal")
    /\ UNCHANGED <<nextIntNodeID, nodes, procs, fatal, stack, arg, res, varsLoc, varsObs, varsSrv, varsWait, varsExt>>

\* node.client.CChainEthAPI().Close()
RemoveNodeClose(t) ==
    /\ At(t, "rm_close")
    /\ procs' = [procs EXCEPT ![node[t]].wsClosed = TRUE]
    /\ Goto(t, "rm_signal")
    /\ UNCHANGED <<nextIntNodeID, nodes, fatal, stack, arg, res, varsLoc, varsObs, varsSrv, varsWait, varsExt>>

\* node.cmd.Process.Signal(syscall.SIGTERM): signalled counts the requests,
\* sigterm the signals the OS delivered (delivered is the OS's answer)
RemoveNodeSignal(t) ==
    /\ At(t, "rm_signal")
    /\ \E delivered \in BOOLEAN :
         /\ procs' = [procs EXCEPT ![node[t]].signalled = @ + 1,
                                   ![node[t]].sigterm = IF delivered THEN @ + 1 ELSE @]
         /\ Return(t, IF delivered THEN "ok" ELSE "ProcessError")
    /\ UNCHANGED <<nextIntNodeID, nodes, fatal, adds, nCalls, varsSrv, varsWait, varsExt>>

(***************************************************************************)
(* localNetwork.Stop                                                       *)
(***************************************************************************)
CallStop(t) ==
    /\ Issue(t, "Stop", "")
    /\ Goto(t, "stop_range")
    /\ UNCHANGED <<varsMgr, varsLoc, res, last, prev, adds, varsSrv, varsWait, varsExt>>

\* for nodeID := range net.nodes { err := net.RemoveNode(nodeID) ...
\* the range produces, in no fixed order, each key still in the map once
StopRange(t) ==
    /\ At(t, "stop_range")
    /\ IF DOMAIN nodes \ visited[t] = {}
       THEN Return(t, "ok")
       ELSE \E n \in DOMAIN nodes \ visited[t] :
            /\ visited' = [visited EXCEPT ![t] = @ \cup {n}]
            /\ arg' = [arg EXCEPT ![t] = n]
            /\ stack' = [stack EXCEPT ![t] = <<"stop_err">> \o @]
            /\ Goto(t, "rm_lookup")
            /\ UNCHANGED <<res, nodeID, tmp, node, files, cfgIdx, last, prev, call>>
    /\ UNCHANGED <<varsMgr, adds, nCalls, varsSrv, varsWait, varsExt>>

StopErrIgnored(t) ==
    /\ At(t, "stop_err")
    /\ Goto(t, "stop_range")
    /\ UNCHANGED <<stack, arg, res, varsLoc, last, prev, call>>
    /\ UNCHANGED <<varsMgr, adds, nCalls, varsSrv, varsWait, varsExt>>

\* ... if err != nil { return err } }
StopErr(t) ==
    /\ At(t, "stop_err")
    /\ IF res[t] # "ok"
       THEN Return(t, res[t])
       ELSE Goto(t, "stop_range")
            /\ UNCHANGED <<stack, arg, res, varsLoc, last, prev, call>>
    /\ UNCHANGED <<varsMgr, adds, nCalls, varsSrv, varsWait, varsExt>>

(***************************************************************************)
(* The node map is a plain Go map: when one goroutine writes it while      *)
(* another reads or writes it, the runtime may abort the program           *)
(* ("fatal error: concurrent map writes").                                 *)
(***************************************************************************)
MapReads == {"rm_lookup", "stop_range"}

MapWrites == {"add_record", "rm_delete"}

ReadsMap(t) == pc[t] \in MapReads \/ (pc[t] = "add_name" /\ arg[t] # "")

MapRaceFatal ==
    /\ fatal = ""
    /\ \E t, u \in AllThreads :
         /\ t # u
         /\ pc[t] \in MapWrites
         /\ pc[u] \in MapWrites \/ ReadsMap(u)
    /\ fatal' = "concurrent map access"
    /\ UNCHANGED <<nextIntNodeID, nodes, procs, varsThr, varsObs, varsSrv, varsWait, varsExt>>

(***************************************************************************)
(* The manager's requests.                                                 *)
(***************************************************************************)
Step(t) ==
    \/ CallAddNode(t)
    \/ AddNodeAlloc(t)
    \/ AddNodeIncrLoad(t)
    \/ AddNodeIncrStore(t)
    \/ AddNodeName(t)
    \/ AddNodeFiles(t)
    \/ AddNodeSpawn(t)
    \/ AddNodeRecord(t)
    \/ CallRemoveNode(t)
    \/ RemoveNodeLookup(t)
    \/ RemoveNodeDelete(t)
    \/ RemoveNodeClose(t)
    \/ RemoveNodeSignal(t)
    \/ CallStop(t)
    \/ StopRange(t)
    \/ StopErr(t)

\* the manager under concurrent requests: it holds no lock, so the steps of
\* the requests interleave
Next ==
    \/ \E t \in Threads : Step(t)
    \/ MapRaceFatal

Spec == Init /\ [][Next]_vars

\* the manager under requests issued one after the other
Quiet(t) == \A u \in AllThreads \ {t} : pc[u] = "idle"

NextSeq == \E t \in Threads : Quiet(t) /\ Step(t)

SpecSeq == Init /\ [][NextSeq]_vars

(***************************************************************************)
(* NewNetwork: the network of the control server, created by start().      *)
(***************************************************************************)
\* networkConfig.Validate(), net := &localNetwork{nodes: map[string]*localNode{},
\* nextIntNodeID: 1, ...}, json.Unmarshal of the core config flags: the
\* manager is a new one (the processes of an earlier one keep running)
NewNetworkValidate(t) ==
    /\ At(t, "newnet_validate")
    /\ \E valid \in BOOLEAN :
         IF valid
         THEN /\ nodes' = <<>>
              /\ nextIntNodeID' = 1
              /\ cfgIdx' = [cfgIdx EXCEPT ![t] = 0]
              /\ Goto(t, "newnet_range")
              /\ UNCHANGED <<stack, arg, res, nodeID, tmp, node, files, visited,
                             last, prev, call>>
         ELSE /\ Return(t, "Validation")
              /\ UNCHANGED <<nodes, nextIntNodeID>>
    /\ UNCHANGED <<procs, fatal, adds, nCalls, varsSrv, varsWait, varsExt>>

\* for _, nodeConfig := range networkConfig.NodeConfigs { net.AddNode(nodeConfig) ...
NewNetworkRange(t) ==
    /\ At(t, "newnet_range")
    /\ IF cfgIdx[t] = NumNodes
       THEN Return(t, "ok")
       ELSE /\ cfgIdx' = [cfgIdx EXCEPT ![t] = @ + 1]
            /\ arg' = [arg EXCEPT ![t] = NodeName(cfgIdx[t] + 1)]
            /\ stack' = [stack EXCEPT ![t] = <<"newnet_err">> \o @]
            /\ Goto(t, "add_alloc")
            /\ UNCHANGED <<res, nodeID, tmp, node, files, visited, last, prev, call>>
    /\ UNCHANGED <<varsMgr, adds, nCalls, varsSrv, varsWait, varsExt>>

\* ... if err != nil { return nil, err } }
NewNetworkErr(t) ==
    /\ At(t, "newnet_err")
    /\ IF res[t] # "ok"
       THEN Return(t, res[t])
       ELSE Goto(t, "newnet_range")
            /\ UNCHANGED <<stack, arg, res, varsLoc, last, prev, call>>
    /\ UNCHANGED <<varsMgr, adds, nCalls, varsSrv, varsWait, varsExt>>

(***************************************************************************)
(* server.localNetwork.start, run in the background by goroutine 0         *)
(***************************************************************************)
\* capacity of errc
ErrcCap == 1

\* go lc.start(): nw, err := local.NewNetwork(...)
Start(t) ==
    /\ t = StartThread
    /\ At(t, "idle")
    /\ stack' = [stack EXCEPT ![t] = <<"start_nw">>]
    /\ Goto(t, "newnet_validate")
    /\ UNCHANGED <<varsMgr, arg, res, varsLoc, varsObs, varsSrv, varsWait, varsExt>>

\* if err != nil { lc.errc <- err; return }; lc.nw = nw
StartNetwork(t) ==
    /\ At(t, "start_nw")
    /\ IF res[t] # "ok"
       THEN /\ Len(errc) < ErrcCap
            /\ errc' = Append(errc, res[t])
            /\ Goto(t, "start_defer")
            /\ UNCHANGED <<nw, stack>>
       ELSE /\ nw' = "set"
            /\ stack' = [stack EXCEPT ![t] = <<"start_healthy">>]
            /\ Goto(t, "wfh_select")
            /\ UNCHANGED errc
    /\ UNCHANGED <<varsMgr, arg, res, varsLoc, varsObs, readyc, readycCloseOnce,
                   stopc, donec, stopOnce, nodeInfos, apiClis, stopInWait, stopCalls, varsWait, varsExt>>

StartHealthySendsAlways(t) ==
    /\ At(t, "start_healthy")
    /\ Len(errc) < ErrcCap
    /\ errc' = Append(errc, res[t])
    /\ Goto(t, "start_defer")
    /\ UNCHANGED <<varsMgr, stack, arg, res, varsLoc, varsObs, nw, readyc,
                   readycCloseOnce, stopc, donec, stopOnce, nodeInfos, apiClis, stopInWait,
                   stopCalls, varsWait, varsExt>>

\* if err := lc.waitForHealthy(); err != nil { lc.errc <- err; return }
StartHealthy(t) ==
    /\ At(t, "start_healthy")
    /\ IF res[t] # "ok"
       THEN /\ Len(errc) < ErrcCap
            /\ errc' = Append(errc, res[t])
       ELSE UNCHANGED errc
    /\ Goto(t, "start_defer")
    /\ UNCHANGED <<varsMgr, stack, arg, res, varsLoc, varsObs, nw, readyc,
                   readycCloseOnce, stopc, donec, stopOnce, nodeInfos, apiClis, stopInWait,
                   stopCalls, varsWait, varsExt>>

StartDeferNoClose(t) ==
    /\ At(t, "start_defer")
    /\ Goto(t, "done")
    /\ UNCHANGED <<varsMgr, donec, stack, arg, res, varsLoc, varsObs,
                   nw, readyc, readycCloseOnce, stopc, errc, stopOnce, nodeInfos,
                   apiClis, stopInWait, stopCalls, varsWait, varsExt>>

\* defer func() { close(lc.donec) }(): closing a closed channel panics
StartDefer(t) ==
    /\ At(t, "start_defer")
    /\ IF donec
       THEN fatal' = "close of closed channel" /\ UNCHANGED <<donec, pc>>
       ELSE donec' = TRUE /\ Goto(t, "done") /\ UNCHANGED fatal
    /\ UNCHANGED <<nextIntNodeID, nodes, procs, stack, arg, res, varsLoc, varsObs,
                   nw, readyc, readycCloseOnce, stopc, errc, stopOnce, nodeInfos,
                   apiClis, stopInWait, stopCalls, varsWait, varsExt>>

(***************************************************************************)
(* server.localNetwork.waitForHealthy                                      *)
(***************************************************************************)
AnyCase(health, expired) == {"stopc", "ctx", "hc"}

\* the cases of the select that can proceed: stopc is closed, the context's
\* deadline (healthyWait) has expired, the health channel hc holds a result
ReadyCases(health, expired) ==
    (IF stopc THEN {"stopc"} ELSE {})
        \cup (IF expired THEN {"ctx"} ELSE {})
        \cup (IF health # "pending" THEN {"hc"} ELSE {})

HealthAlwaysOk(health) == TRUE

\* case err := <-hc: if err != nil { return err }
HealthOk(health) == health = "healthy"

\* select { case <-lc.stopc: ... case <-ctx.Done(): ... case err := <-hc: ... }
\* Go picks one of the cases that can proceed, in no fixed order
WaitForHealthySelect(t) ==
    /\ At(t, "wfh_select")
    /\ \E health \in {"pending", "healthy", "unhealthy"}, expired \in BOOLEAN :
       \E case \in ReadyCases(health, expired) :
         /\ hcErr' = IF case = "hc" THEN health ELSE hcErr
         /\ selReady' = ReadyCases(health, expired)
         /\ IF case = "stopc" THEN Return(t, "aborted")
            ELSE IF case = "ctx" THEN Return(t, "DeadlineExceeded")
            ELSE IF ~HealthOk(health) THEN Return(t, "HealthError")
            ELSE /\ Goto(t, "wfh_nodes")
                 /\ UNCHANGED <<stack, arg, res, varsLoc, last, prev, call>>
    /\ UNCHANGED <<varsMgr, adds, nCalls, varsSrv, varsWait, varsLookup, varsExtRest>>

\* lc.nw.GetAllNodes(): the nodes of the network, by name
GetAllNodes == nodes

WaitForHealthyNodesSkipped(t) ==
    /\ At(t, "wfh_nodes")
    /\ Goto(t, "wfh_ready")
    /\ UNCHANGED <<stack, arg, res, varsLoc, last, prev, call, nodeInfos, apiClis, fatal>>
    /\ UNCHANGED <<nextIntNodeID, nodes, procs, adds, nCalls,
                   nw, readyc, readycCloseOnce, stopc, donec, errc, stopOnce,
                   stopCalls, stopInWait, varsWait, varsExt>>

\* nodes, err := lc.nw.GetAllNodes(); if err != nil { return err }
\* for name, node := range nodes { lc.nodeInfos[name].Uri = ...; .Id = ...;
\*                                 lc.apiClis[name] = node.GetAPIClient() }
\* lc.nodeInfos[name] of a name newNetwork did not enter is a nil pointer
WaitForHealthyNodes(t) ==
    /\ At(t, "wfh_nodes")
    /\ \E listed \in BOOLEAN :
         IF ~listed
         THEN /\ Return(t, "GetAllNodesError")
              /\ UNCHANGED <<nodeInfos, apiClis, fatal>>
         ELSE /\ IF DOMAIN GetAllNodes \subseteq DOMAIN nodeInfos
                 THEN /\ nodeInfos' = [n \in DOMAIN nodeInfos |->
                                         IF n \in DOMAIN GetAllNodes
                                         THEN [uri |-> TRUE, id |-> TRUE]
                                         ELSE nodeInfos[n]]
                      /\ apiClis' = apiClis \cup DOMAIN GetAllNodes
                      /\ Goto(t, "wfh_ready")
                      /\ UNCHANGED fatal
                 ELSE /\ fatal' = "nil pointer dereference"
                      /\ UNCHANGED <<nodeInfos, apiClis, pc>>
              /\ UNCHANGED <<stack, arg, res, varsLoc, last, prev, call>>
    /\ UNCHANGED <<nextIntNodeID, nodes, procs, adds, nCalls,
                   nw, readyc, readycCloseOnce, stopc, donec, errc, stopOnce,
                   stopCalls, stopInWait, varsWait, varsExt>>

\* lc.readycCloseOnce.Do(func() { close(lc.readyc) }); return nil
WaitForHealthyReady(t) ==
    /\ At(t, "wfh_ready")
    /\ IF readycCloseOnce
       THEN UNCHANGED <<readyc, readycCloseOnce>>
       ELSE readyc' = TRUE /\ readycCloseOnce' = TRUE
    /\ Return(t, "ok")
    /\ UNCHANGED <<varsMgr, adds, nCalls, nw, stopc, donec, errc, stopOnce,
                   nodeInfos, apiClis, stopInWait, stopCalls, varsWait, varsExt>>

(***************************************************************************)
(* server.localNetwork.stop, called by the request goroutines              *)
(***************************************************************************)
CallServerStop(t) ==
    /\ fatal = ""
    /\ pc[t] \in {"idle", "stopped"}
    /\ Goto(t, "srvstop_once")
    /\ UNCHANGED <<varsMgr, stack, arg, res, varsLoc, varsObs, varsSrv, varsWait, varsExt>>

OnceSkipsUnlessFresh(once) == once # "fresh"

\* sync.Once.Do: the first caller runs the function ...
OnceRuns(once) == once = "fresh"

\* ... and every other caller returns only when that run has completed
OnceSkips(once) == once = "done"

\* lc.stopOnce.Do(func() { ...
StopOnceDo(t) ==
    /\ At(t, "srvstop_once")
    /\ \/ /\ OnceRuns(stopOnce)
          /\ stopOnce' = "running"
          /\ Goto(t, "srvstop_close")
       \/ /\ ~OnceRuns(stopOnce)
          /\ OnceSkips(stopOnce)
          /\ Goto(t, "stopped")
          /\ UNCHANGED stopOnce
    /\ UNCHANGED <<varsMgr, stack, arg, res, varsLoc, varsObs, nw, readyc,
                   readycCloseOnce, stopc, donec, errc, nodeInfos, apiClis, stopInWait, stopCalls, varsWait, varsExt>>

\* close(lc.stopc)
StopCloseStopc(t) ==
    /\ At(t, "srvstop_close")
    /\ IF stopc
       THEN fatal' = "close of closed channel" /\ UNCHANGED <<stopc, pc, stopInWait>>
       ELSE /\ stopc' = TRUE
            /\ stopInWait' = (pc[StartThread] = "wfh_select")
            /\ Goto(t, "srvstop_nw")
            /\ UNCHANGED fatal
    /\ UNCHANGED <<nextIntNodeID, nodes, procs, stack, arg, res, varsLoc, varsObs,
                   nw, readyc, readycCloseOnce, donec, errc, stopOnce, nodeInfos,
                   apiClis, stopCalls, varsWait, varsExt>>

\* serr := lc.nw.Stop(context.Background()): a method call on the nil
\* interface panics
StopNetwork(t) ==
    /\ At(t, "srvstop_nw")
    /\ IF nw = "nil"
       THEN /\ fatal' = "nil pointer dereference"
            /\ UNCHANGED <<pc, stack, stopCalls>>
       ELSE /\ stopCalls' = stopCalls + 1
            /\ stack' = [stack EXCEPT ![t] = <<"srvstop_donec">>]
            /\ Goto(t, "stop_range")
            /\ UNCHANGED fatal
    /\ UNCHANGED <<nextIntNodeID, nodes, procs, arg, res, varsLoc, varsObs, nw,
                   readyc, readycCloseOnce, stopc, donec, errc, stopOnce,
                   nodeInfos, apiClis, stopInWait, varsWait, varsExt>>

StopNoWaitDonec(t) ==
    /\ At(t, "srvstop_donec")
    /\ stopOnce' = "done"
    /\ visited' = [visited EXCEPT ![t] = {}]
    /\ node' = [node EXCEPT ![t] = 0]
    /\ arg' = [arg EXCEPT ![t] = ""]
    /\ Goto(t, "stopped")
    /\ UNCHANGED <<varsMgr, stack, res, nodeID, tmp, files, cfgIdx, varsObs, nw,
                   readyc, readycCloseOnce, stopc, donec, errc, nodeInfos, apiClis, stopInWait,
                   stopCalls, varsWait, varsExt>>

\* <-lc.donec; ... }): the function of stopOnce returns
StopWaitDonec(t) ==
    /\ At(t, "srvstop_donec")
    /\ donec
    /\ stopOnce' = "done"
    /\ visited' = [visited EXCEPT ![t] = {}]
    /\ node' = [node EXCEPT ![t] = 0]
    /\ arg' = [arg EXCEPT ![t] = ""]
    /\ Goto(t, "stopped")
    /\ UNCHANGED <<varsMgr, stack, res, nodeID, tmp, files, cfgIdx, varsObs, nw,
                   readyc, readycCloseOnce, stopc, donec, errc, nodeInfos, apiClis, stopInWait,
                   stopCalls, varsWait, varsExt>>

(***************************************************************************)
(* The control server: start() in the background, stop() on request.       *)
(***************************************************************************)
NextSrv ==
    \/ Start(StartThread)
    \/ NewNetworkValidate(StartThread)
    \/ NewNetworkRange(StartThread)
    \/ NewNetworkErr(StartThread)
    \/ AddNodeAlloc(StartThread)
    \/ AddNodeIncrLoad(StartThread)
    \/ AddNodeIncrStore(StartThread)
    \/ AddNodeName(StartThread)
    \/ AddNodeFiles(StartThread)
    \/ AddNodeSpawn(StartThread)
    \/ AddNodeRecord(StartThread)
    \/ StartNetwork(StartThread)
    \/ WaitForHealthySelect(StartThread)
    \/ WaitForHealthyNodes(StartThread)
    \/ WaitForHealthyReady(StartThread)
    \/ StartHealthy(StartThread)
    \/ StartDefer(StartThread)
    \/ \E t \in Threads :
         \/ CallServerStop(t)
         \/ StopOnceDo(t)
         \/ StopCloseStopc(t)
         \/ StopNetwork(t)
         \/ StopRange(t)
         \/ StopErr(t)
         \/ RemoveNodeLookup(t)
         \/ RemoveNodeDelete(t)
         \/ RemoveNodeClose(t)
         \/ RemoveNodeSignal(t)
         \/ StopWaitDonec(t)

SpecSrv == Init /\ [][NextSrv]_vars

(***************************************************************************)
(* start() invoked again on the same instance, after the first invocation  *)
(* has returned.                                                           *)
(***************************************************************************)
StartAgain(t) ==
    /\ t = StartThread
    /\ At(t, "done")
    /\ stack' = [stack EXCEPT ![t] = <<"start_nw">>]
    /\ Goto(t, "newnet_validate")
    /\ UNCHANGED <<varsMgr, arg, res, varsLoc, varsObs, varsSrv, varsWait, varsExt>>

NextRestart ==
    \/ Start(StartThread)
    \/ StartAgain(StartThread)
    \/ NewNetworkValidate(StartThread)
    \/ NewNetworkRange(StartThread)
    \/ NewNetworkErr(StartThread)
    \/ AddNodeAlloc(StartThread)
    \/ AddNodeIncrLoad(StartThread)
    \/ AddNodeIncrStore(StartThread)
    \/ AddNodeName(StartThread)
    \/ AddNodeFiles(StartThread)
    \/ AddNodeSpawn(StartThread)
    \/ AddNodeRecord(StartThread)
    \/ StartNetwork(StartThread)
    \/ WaitForHealthySelect(StartThread)
    \/ WaitForHealthyNodes(StartThread)
    \/ WaitForHealthyReady(StartThread)
    \/ StartHealthy(StartThread)
    \/ StartDefer(StartThread)

SpecRestart == Init /\ [][NextRestart]_vars

(***************************************************************************)
(* waitNode: waits until the node initializes, or timeouts.                *)
(***************************************************************************)
\* timeout := 1 * time.Minute, pollTime := 10 * time.Second, in seconds
Timeout == 60

PollTime == 10

Instant == {0}

\* the time one IsBootstrapped query may take, in seconds: the API client
\* gives up after 20 seconds
QueryTimes == {0, 10, 20}

\* what one IsBootstrapped query answers
Answers == {"bootstrapped", "notBootstrapped", "error"}

FailsOnErrorOnly(answer) == answer = "error"

\* err != nil || !bootstrapped
QueryFails(answer) == answer # "bootstrapped"

WaitNodeCall ==
    /\ wnPc = "idle"
    /\ wnPc' = "loop"
    /\ elapsed' = 0
    /\ nodeIsUp' = FALSE
    /\ round' = <<>>
    /\ UNCHANGED <<wnRes, varsMgr, varsThr, varsObs, varsSrv, varsExt>>

\* for t0 := time.Now(); !nodeIsUp && time.Since(t0) <= timeout; { nodeIsUp = true
\* ... } return nodeIsUp
WaitNodeLoop ==
    /\ wnPc = "loop"
    /\ IF ~nodeIsUp /\ elapsed <= Timeout
       THEN /\ nodeIsUp' = TRUE
            /\ round' = <<>>
            /\ wnPc' = "P"
            /\ UNCHANGED wnRes
       ELSE /\ wnRes' = nodeIsUp
            /\ wnPc' = "done"
            /\ UNCHANGED <<nodeIsUp, round>>
    /\ UNCHANGED <<elapsed, varsMgr, varsThr, varsObs, varsSrv, varsExt>>

\* one info.IsBootstrapped(chain) of the round; a failed P or C query
\* continues with the next round at once
WaitNodeQuery(at, next) ==
    /\ wnPc = at
    /\ \E answer \in Answers, took \in QueryTimes :
         /\ elapsed' = elapsed + took
         /\ round' = Append(round, answer)
         /\ IF QueryFails(answer)
            THEN nodeIsUp' = FALSE /\ wnPc' = IF at = "X" THEN "sleep" ELSE "loop"
            ELSE UNCHANGED nodeIsUp /\ wnPc' = next
    /\ UNCHANGED <<wnRes, varsMgr, varsThr, varsObs, varsSrv, varsExt>>

WaitNodeP == WaitNodeQuery("P", "C")

WaitNodeC == WaitNodeQuery("C", "X")

WaitNodeX == WaitNodeQuery("X", "sleep")

\* if !nodeIsUp { time.Sleep(pollTime) }
WaitNodeSleep ==
    /\ wnPc = "sleep"
    /\ elapsed' = IF ~nodeIsUp THEN elapsed + PollTime ELSE elapsed
    /\ wnPc' = "loop"
    /\ UNCHANGED <<nodeIsUp, round, wnRes, varsMgr, varsThr, varsObs, varsSrv, varsExt>>

NextWait ==
    \/ WaitNodeCall
    \/ WaitNodeLoop
    \/ WaitNodeP
    \/ WaitNodeC
    \/ WaitNodeX
    \/ WaitNodeSleep

SpecWait == Init /\ [][NextWait]_vars

\* a step of waitNode in which the clock advances
TimePasses == NextWait /\ elapsed' > elapsed

\* waitNode keeps running, and the clock does not stand still: of the steps
\* that take time (a query's round trip, the sleep), infinitely many rounds
\* do not all fit into one instant
SpecWaitLive == SpecWait /\ WF_vars(NextWait) /\ SF_vars(TimePasses)

(***************************************************************************)
(* localNetwork.Ready: the network-wide health wait, on a manager at rest. *)
(***************************************************************************)
\* readyCh := make(chan struct{}); errorCh := make(chan error); go func() { ...
ReadyCall ==
    /\ fatal = ""
    /\ rdPc = "idle"
    /\ \A t \in AllThreads : pc[t] = "idle"
    /\ rdPc' = "range"
    /\ UNCHANGED <<rdVisited, rdCur, rdDown, readyCh, errorCh, rdErrs, varsSel, varsLookup,
                   varsEx, varsColor, varsStream, varsMgr, varsThr, varsObs, varsSrv, varsWait>>

\* for id := range net.nodes { b := waitNode(net.nodes[id].client)
\*     if !b { errorCh <- fmt.Errorf("timeout waiting for node %v", id) } ... }
\* close(readyCh)
\* b is what waitNode returns for the node; the send on the unbuffered
\* errorCh blocks until the caller receives
ReadyRange ==
    /\ rdPc = "range"
    /\ IF DOMAIN nodes \ rdVisited = {}
       THEN /\ readyCh' = TRUE
            /\ rdPc' = "done"
            /\ UNCHANGED <<rdVisited, rdCur, rdDown, errorCh>>
       ELSE \E id \in DOMAIN nodes \ rdVisited, b \in BOOLEAN :
            /\ rdVisited' = rdVisited \cup {id}
            /\ rdCur' = id
            /\ IF ~b
               THEN /\ rdDown' = rdDown \cup {id}
                    /\ errorCh' = <<id>>
                    /\ rdPc' = "send"
               ELSE UNCHANGED <<rdDown, errorCh, rdPc>>
            /\ UNCHANGED readyCh
    /\ UNCHANGED <<rdErrs, varsSel, varsLookup, varsEx, varsColor, varsStream, varsMgr, varsThr, varsObs,
                   varsSrv, varsWait>>

\* the caller receives from errorCh: the goroutine goes on with its loop
ReadyRecvError ==
    /\ rdPc = "send"
    /\ errorCh # <<>>
    /\ rdErrs' = rdErrs \cup {errorCh[1]}
    /\ errorCh' = <<>>
    /\ rdPc' = "range"
    /\ UNCHANGED <<rdVisited, rdCur, rdDown, readyCh, varsSel, varsLookup,
                   varsEx, varsColor, varsStream, varsMgr, varsThr, varsObs, varsSrv, varsWait>>

\* requests issued one after the other, then Ready
NextReady ==
    \/ \E t \in Threads : Quiet(t) /\ rdPc = "idle" /\ Step(t)
    \/ ReadyCall
    \/ ReadyRange
    \/ ReadyRecvError

SpecReady == Init /\ [][NextReady]_vars

(***************************************************************************)
(* The example programs: run() and shutdownOnSignal.                       *)
(***************************************************************************)
\* everything but the example program's own state and the runtime's abort
varsNotEx == <<nextIntNodeID, nodes, procs, varsThr, varsObs, varsSrv, varsWait,
               varsSel, varsLookup, varsReady, varsColor, varsStream>>

\* signal.Notify(signalsChan, syscall.SIGINT); signal.Notify(signalsChan, syscall.SIGTERM)
Signals == {"SIGINT", "SIGTERM"}

\* make(chan os.Signal, 1)
SignalsChanCap == 1

RunCall ==
    /\ fatal = ""
    /\ runPc = "idle" /\ sigPc = "none"
    /\ runPc' = "network"
    /\ UNCHANGED <<runRes, sigPc, sig, signalsChan, closedOnShutdownCh, exStops,
                   fatal, varsNotEx>>

\* nw, err := local.NewDefaultNetwork(log, binaryPath); if err != nil { return err }
\* defer func() { nw.Stop(...) }()
RunNetwork ==
    /\ fatal = ""
    /\ runPc = "network"
    /\ \E created \in BOOLEAN :
         IF created
         THEN runPc' = "notify" /\ UNCHANGED runRes
         ELSE runPc' = "returned" /\ runRes' = "error"
    /\ UNCHANGED <<sigPc, sig, signalsChan, closedOnShutdownCh, exStops, fatal, varsNotEx>>

\* signalsChan := make(chan os.Signal, 1); signal.Notify(signalsChan, ...)
\* closedOnShutdownCh := make(chan struct{})
RunNotify ==
    /\ fatal = ""
    /\ runPc = "notify"
    /\ signalsChan' = [buf |-> <<>>, closed |-> FALSE, notify |-> TRUE]
    /\ closedOnShutdownCh' = FALSE
    /\ runPc' = "go"
    /\ UNCHANGED <<runRes, sigPc, sig, exStops, fatal, varsNotEx>>

\* go func() { shutdownOnSignal(log, nw, signalsChan, closedOnShutdownCh) }()
RunGo ==
    /\ fatal = ""
    /\ runPc = "go"
    /\ sigPc' = "recv"
    /\ runPc' = "healthy"
    /\ UNCHANGED <<runRes, sig, signalsChan, closedOnShutdownCh, exStops, fatal, varsNotEx>>

\* if err := <-healthyChan; err != nil { return err }
RunHealthy ==
    /\ fatal = ""
    /\ runPc = "healthy"
    /\ \E healthy \in BOOLEAN :
         IF healthy
         THEN runPc' = "wait_shutdown" /\ UNCHANGED runRes
         ELSE runPc' = "defer_stop" /\ runRes' = "error"
    /\ UNCHANGED <<sigPc, sig, signalsChan, closedOnShutdownCh, exStops, fatal, varsNotEx>>

RunNoWaitShutdown ==
    /\ fatal = ""
    /\ runPc = "wait_shutdown"
    /\ runRes' = "nil"
    /\ runPc' = "defer_stop"
    /\ UNCHANGED <<sigPc, sig, signalsChan, closedOnShutdownCh, exStops, fatal, varsNotEx>>

\* <-closedOnShutdownCh; return nil
RunWaitShutdown ==
    /\ fatal = ""
    /\ runPc = "wait_shutdown"
    /\ closedOnShutdownCh
    /\ runRes' = "nil"
    /\ runPc' = "defer_stop"
    /\ UNCHANGED <<sigPc, sig, signalsChan, closedOnShutdownCh, exStops, fatal, varsNotEx>>

\* the deferred nw.Stop(context.Background())
RunDeferStop ==
    /\ fatal = ""
    /\ runPc = "defer_stop"
    /\ exStops' = [exStops EXCEPT !.defer = @ + 1]
    /\ runPc' = "returned"
    /\ UNCHANGED <<runRes, sigPc, sig, signalsChan, closedOnShutdownCh, fatal, varsNotEx>>

\* the OS delivers SIGINT or SIGTERM: package signal sends it to the
\* registered channel without blocking (it is dropped when the buffer is full)
OsSignal ==
    /\ fatal = ""
    /\ signalsChan.notify /\ ~signalsChan.closed
    /\ Len(signalsChan.buf) < SignalsChanCap
    /\ \E s \in Signals : signalsChan' = [signalsChan EXCEPT !.buf = Append(@, s)]
    /\ UNCHANGED <<runPc, runRes, sigPc, sig, closedOnShutdownCh, exStops, fatal, varsNotEx>>

\* shutdownOnSignal called on its own, with the signal channel of its caller:
\* open or closed, with or without a signal in its buffer
ShutdownCall ==
    /\ fatal = ""
    /\ runPc = "idle" /\ sigPc = "none"
    /\ \E closed \in BOOLEAN, pending \in {<<>>} \cup {<<s>> : s \in Signals} :
         signalsChan' = [buf |-> pending, closed |-> closed, notify |-> FALSE]
    /\ sigPc' = "recv"
    /\ UNCHANGED <<runPc, runRes, sig, closedOnShutdownCh, exStops, fatal, varsNotEx>>

\* sig := <-signalChan: a buffered signal, or the zero value once the channel
\* is closed and empty; blocks otherwise
ShutdownRecv ==
    /\ fatal = ""
    /\ sigPc = "recv"
    /\ signalsChan.buf # <<>> \/ signalsChan.closed
    /\ IF signalsChan.buf # <<>>
       THEN /\ sig' = Head(signalsChan.buf)
            /\ signalsChan' = [signalsChan EXCEPT !.buf = Tail(@)]
       ELSE /\ sig' = "nil"
            /\ UNCHANGED signalsChan
    /\ sigPc' = "stop"
    /\ UNCHANGED <<runPc, runRes, closedOnShutdownCh, exStops, fatal, varsNotEx>>

\* log.Info(...); if err := n.Stop(context.Background()); err != nil { log ... }
ShutdownStop ==
    /\ fatal = ""
    /\ sigPc = "stop"
    /\ exStops' = [exStops EXCEPT !.shutdown = @ + 1]
    /\ sigPc' = "reset"
    /\ UNCHANGED <<runPc, runRes, sig, signalsChan, closedOnShutdownCh, fatal, varsNotEx>>

\* signal.Reset()
ShutdownReset ==
    /\ fatal = ""
    /\ sigPc = "reset"
    /\ signalsChan' = [signalsChan EXCEPT !.notify = FALSE]
    /\ sigPc' = "close_sig"
    /\ UNCHANGED <<runPc, runRes, sig, closedOnShutdownCh, exStops, fatal, varsNotEx>>

\* close(signalChan): closing a closed channel panics
ShutdownCloseSignal ==
    /\ fatal = ""
    /\ sigPc = "close_sig"
    /\ IF signalsChan.closed
       THEN fatal' = "close of closed channel" /\ UNCHANGED <<signalsChan, sigPc>>
       ELSE /\ signalsChan' = [signalsChan EXCEPT !.closed = TRUE]
            /\ sigPc' = "close_done"
            /\ UNCHANGED fatal
    /\ UNCHANGED <<runPc, runRes, sig, closedOnShutdownCh, exStops, varsNotEx>>

\* close(closedOnShutdownChan)
ShutdownCloseDone ==
    /\ fatal = ""
    /\ sigPc = "close_done"
    /\ IF closedOnShutdownCh
       THEN fatal' = "close of closed channel" /\ UNCHANGED <<closedOnShutdownCh, sigPc>>
       ELSE /\ closedOnShutdownCh' = TRUE
            /\ sigPc' = "end"
            /\ UNCHANGED fatal
    /\ UNCHANGED <<runPc, runRes, sig, signalsChan, exStops, varsNotEx>>

NextExample ==
    \/ RunCall
    \/ RunNetwork
    \/ RunNotify
    \/ RunGo
    \/ RunHealthy
    \/ RunWaitShutdown
    \/ RunDeferStop
    \/ OsSignal
    \/ ShutdownCall
    \/ ShutdownRecv
    \/ ShutdownStop
    \/ ShutdownReset
    \/ ShutdownCloseSignal
    \/ ShutdownCloseDone

SpecExample == Init /\ [][NextExample]_vars

(***************************************************************************)
(* utils: the color picker, as TestColorAssignment exercises it.           *)
(***************************************************************************)
\* the test iterates 3 times over the colors ("to make sure that it wraps")
Cycles == 3

supportedColors == [k \in 1..NumColors |-> "color" \o Sprint(k)]

PickColorNoWrap(idx) ==
    supportedColors[(IF idx < NumColors THEN idx ELSE NumColors - 1) + 1]

\* the color of the idx-th call, counted from 0 (Go slices start at 0,
\* TLA+ sequences at 1)
PickColor(idx) == supportedColors[(idx % NumColors) + 1]

\* c := NewColorPicker()
NewColorPicker(p) ==
    /\ usedIndex[p] = -1
    /\ usedIndex' = [usedIndex EXCEPT ![p] = 0]
    /\ UNCHANGED <<returned, varsMgr, varsThr, varsObs, varsSrv, varsWait, varsSel, varsLookup,
                   varsReady, varsEx, varsStream>>

\* color := c.NextColor()
NextColor(p) ==
    /\ usedIndex[p] >= 0
    /\ usedIndex[p] < Cycles * NumColors
    /\ returned' = [returned EXCEPT ![p] = Append(@, PickColor(usedIndex[p]))]
    /\ usedIndex' = [usedIndex EXCEPT ![p] = @ + 1]
    /\ UNCHANGED <<varsMgr, varsThr, varsObs, varsSrv, varsWait, varsSel, varsLookup,
                   varsReady, varsEx, varsStream>>

NextPickers ==
    \E p \in Pickers :
        \/ NewColorPicker(p)
        \/ NextColor(p)

SpecColor == Init /\ [][NextPickers]_vars

(***************************************************************************)
(* control: streamStatusFunc, its signal watcher, and the status stream.   *)
(***************************************************************************)
\* snapshots one stream produces at most
MaxSnapshots == 3

\* everything but the stream's state
varsNotStream == <<varsMgr, varsThr, varsObs, varsSrv, varsWait, varsSel, varsLookup, varsReady,
                   varsEx, varsColor>>

\* ctx becomes done: by cancel(), or by the deadline of requestTimeout
Done ==
    /\ ctxDone' = TRUE
    /\ printedAtDone' = IF ctxDone THEN printedAtDone ELSE printed

StreamCall ==
    /\ fatal = ""
    /\ ssPc = "idle"
    /\ ssPc' = "new"
    /\ UNCHANGED <<ssRes, cliOpen, wPc, sigc, ctxDone, ssDonec, prodPc, ticker,
                   chClosed, sent, printed, printedAtDone, varsNotStream>>

\* cli, err := client.New(...); if err != nil { return err }; defer cli.Close()
StreamNew ==
    /\ fatal = ""
    /\ ssPc = "new"
    /\ \E dialled \in BOOLEAN :
         IF dialled
         THEN cliOpen' = TRUE /\ ssPc' = "go" /\ UNCHANGED ssRes
         ELSE ssRes' = "error" /\ ssPc' = "returned" /\ UNCHANGED cliOpen
    /\ UNCHANGED <<wPc, sigc, ctxDone, ssDonec, prodPc, ticker, chClosed, sent,
                   printed, printedAtDone, varsNotStream>>

\* sigc := make(chan os.Signal, 1); signal.Notify(sigc, ...); donec := make(...)
\* ctx, cancel := context.WithTimeout(...); go func() { ... }()
StreamGo ==
    /\ fatal = ""
    /\ ssPc = "go"
    /\ wPc' = "select"
    /\ ssPc' = "stream"
    /\ UNCHANGED <<ssRes, cliOpen, sigc, ctxDone, ssDonec, prodPc, ticker, chClosed,
                   sent, printed, printedAtDone, varsNotStream>>

\* ch, err := cli.StreamStatus(ctx, pushInterval); if err != nil { return err }
\* (the deferred cli.Close() runs on return)
StreamOpen ==
    /\ fatal = ""
    /\ ssPc = "stream"
    /\ \E opened \in BOOLEAN :
         IF opened
         THEN /\ prodPc' = "tick"
              /\ ticker' = "running"
              /\ ssPc' = "range"
              /\ UNCHANGED <<ssRes, cliOpen>>
         ELSE /\ ssRes' = "error"
              /\ cliOpen' = FALSE
              /\ ssPc' = "returned"
              /\ UNCHANGED <<prodPc, ticker>>
    /\ UNCHANGED <<wPc, sigc, ctxDone, ssDonec, chClosed, sent, printed,
                   printedAtDone, varsNotStream>>

\* the producer offers a snapshot on ch: it has one to send and its context
\* is not cancelled
Offered == prodPc = "send" /\ ~ctxDone

\* for info := range ch { color.Outf("cluster info: ...", info) }
StreamRange ==
    /\ fatal = ""
    /\ ssPc = "range"
    /\ Offered \/ chClosed
    /\ IF chClosed
       THEN ssPc' = "cancel" /\ UNCHANGED <<printed, prodPc>>
       ELSE printed' = printed + 1 /\ prodPc' = "tick" /\ UNCHANGED ssPc
    /\ UNCHANGED <<ssRes, cliOpen, wPc, sigc, ctxDone, ssDonec, ticker, chClosed,
                   sent, printedAtDone, varsNotStream>>

\* cancel() // receiver channel is closed, so cancel goroutine
StreamCancel ==
    /\ fatal = ""
    /\ ssPc = "cancel"
    /\ Done
    /\ ssPc' = "wait_donec"
    /\ UNCHANGED <<ssRes, cliOpen, wPc, sigc, ssDonec, prodPc, ticker, chClosed,
                   sent, printed, varsNotStream>>

DonecNotAwaited == TRUE

\* <-donec
DonecReceived == ssDonec

\* <-donec; return nil (the deferred cli.Close() runs)
StreamReturn ==
    /\ fatal = ""
    /\ ssPc = "wait_donec"
    /\ DonecReceived
    /\ ssRes' = "nil"
    /\ cliOpen' = FALSE
    /\ ssPc' = "returned"
    /\ UNCHANGED <<wPc, sigc, ctxDone, ssDonec, prodPc, ticker, chClosed, sent,
                   printed, printedAtDone, varsNotStream>>

\* select { case sig := <-sigc: ... case <-ctx.Done(): }
WatcherSelect ==
    /\ fatal = ""
    /\ wPc = "select"
    /\ \E case \in (IF sigc > 0 THEN {"sigc"} ELSE {}) \cup (IF ctxDone THEN {"ctx"} ELSE {}) :
         sigc' = IF case = "sigc" THEN sigc - 1 ELSE sigc
    /\ wPc' = "cancel"
    /\ UNCHANGED <<ssPc, ssRes, cliOpen, ctxDone, ssDonec, prodPc, ticker, chClosed,
                   sent, printed, printedAtDone, varsNotStream>>

\* cancel()
WatcherCancel ==
    /\ fatal = ""
    /\ wPc = "cancel"
    /\ Done
    /\ wPc' = "close"
    /\ UNCHANGED <<ssPc, ssRes, cliOpen, sigc, ssDonec, prodPc, ticker, chClosed,
                   sent, printed, varsNotStream>>

\* close(donec)
WatcherClose ==
    /\ fatal = ""
    /\ wPc = "close"
    /\ ~ssDonec
    /\ ssDonec' = TRUE
    /\ wPc' = "exit"
    /\ UNCHANGED <<ssPc, ssRes, cliOpen, sigc, ctxDone, prodPc, ticker, chClosed,
                   sent, printed, printedAtDone, varsNotStream>>

\* SIGINT or SIGTERM arrives: package signal sends it to sigc without
\* blocking (capacity 1)
StreamSignal ==
    /\ fatal = ""
    /\ wPc # "none"
    /\ sigc = 0
    /\ sigc' = 1
    /\ UNCHANGED <<ssPc, ssRes, cliOpen, wPc, ctxDone, ssDonec, prodPc, ticker,
                   chClosed, sent, printed, printedAtDone, varsNotStream>>

\* the deadline of context.WithTimeout(..., requestTimeout) passes
StreamDeadline ==
    /\ fatal = ""
    /\ wPc # "none"
    /\ ~ctxDone
    /\ Done
    /\ UNCHANGED <<ssPc, ssRes, cliOpen, wPc, sigc, ssDonec, prodPc, ticker,
                   chClosed, sent, printed, varsNotStream>>

\* the producer's ticker fires: one snapshot per pushInterval, while the
\* context is not cancelled
StreamTick ==
    /\ fatal = ""
    /\ prodPc = "tick"
    /\ ticker = "running"
    /\ ~ctxDone
    /\ sent < MaxSnapshots
    /\ sent' = sent + 1
    /\ prodPc' = "send"
    /\ UNCHANGED <<ssPc, ssRes, cliOpen, wPc, sigc, ctxDone, ssDonec, ticker,
                   chClosed, printed, printedAtDone, varsNotStream>>

\* the producer ends the stream: it stops its ticker and closes ch
ProducerStop ==
    /\ prodPc \in {"tick", "send"}
    /\ ticker' = "stopped"
    /\ chClosed' = TRUE
    /\ prodPc' = "end"
    /\ UNCHANGED <<ssPc, ssRes, cliOpen, wPc, sigc, ctxDone, ssDonec, sent, printed,
                   printedAtDone, varsNotStream>>

\* ... on cancellation of its context
ProducerCancel ==
    /\ fatal = ""
    /\ ctxDone
    /\ ProducerStop

\* ... or when the connection ends
ProducerEnds ==
    /\ fatal = ""
    /\ ~ctxDone
    /\ ProducerStop

StreamMain ==
    \/ StreamNew
    \/ StreamGo
    \/ StreamOpen
    \/ StreamRange
    \/ StreamCancel
    \/ StreamReturn

Watcher ==
    \/ WatcherSelect
    \/ WatcherCancel
    \/ WatcherClose

NextStream ==
    \/ StreamCall
    \/ StreamMain
    \/ Watcher
    \/ StreamSignal
    \/ StreamDeadline
    \/ StreamTick
    \/ ProducerCancel
    \/ ProducerEnds

\* the goroutines that can run do run
SpecStream ==
    /\ Init /\ [][NextStream]_vars
    /\ WF_vars(StreamMain)
    /\ WF_vars(Watcher)
    /\ WF_vars(ProducerCancel)

(***************************************************************************)
(* localNetwork.GetNode and localNetwork.GetNodesIDs                       *)
(***************************************************************************)
CallGetNode(t) ==
    \E name \in Names :
        /\ Issue(t, "GetNode", name)
        /\ Goto(t, "get_lookup")
        /\ UNCHANGED <<varsMgr, varsLoc, res, last, prev, adds, varsSrv, varsWait, varsExt>>

FoundAlways(m, k) == TRUE

\* node, ok := net.nodes[nodeID]
Found(m, k) == k \in DOMAIN m

\* node, ok := net.nodes[nodeID]; if !ok { return nil, err }
GetNodeLookup(t) ==
    /\ At(t, "get_lookup")
    /\ IF Found(nodes, arg[t])
       THEN /\ node' = [node EXCEPT ![t] =
                          IF arg[t] \in DOMAIN nodes THEN nodes[arg[t]].pid ELSE 0]
            /\ Goto(t, "get_return")
            /\ UNCHANGED <<stack, arg, res, nodeID, tmp, files, cfgIdx, visited, last, prev, call>>
       ELSE Return(t, "NotFound")
    /\ UNCHANGED <<varsMgr, adds, nCalls, varsSrv, varsWait, varsExt>>

\* return node, nil
GetNodeReturn(t) ==
    /\ At(t, "get_return")
    /\ Return(t, "ok")
    /\ UNCHANGED <<varsMgr, adds, nCalls, varsSrv, varsWait, varsExt>>

\* ks := make([]string, 0, len(net.nodes))
CallGetNodesIDs(t) ==
    /\ Issue(t, "GetNodesIDs", "")
    /\ ks' = [ks EXCEPT ![t] = <<>>]
    /\ Goto(t, "ids_range")
    /\ UNCHANGED <<varsMgr, varsLoc, res, last, prev, adds, varsSrv, varsWait, varsSel,
                   varsExtRest>>

\* for k := range net.nodes { ks = append(ks, k) }; return ks
\* the range produces the keys of the map in no fixed order
GetNodesIDsRange(t) ==
    /\ At(t, "ids_range")
    /\ IF DOMAIN nodes \ visited[t] = {}
       THEN Return(t, "ok") /\ UNCHANGED ks
       ELSE /\ \E k \in DOMAIN nodes \ visited[t] :
                 /\ visited' = [visited EXCEPT ![t] = @ \cup {k}]
                 /\ ks' = [ks EXCEPT ![t] = Append(@, k)]
            /\ UNCHANGED <<pc, stack, arg, res, nodeID, tmp, node, files, cfgIdx,
                           last, prev, call>>
    /\ UNCHANGED <<varsMgr, adds, nCalls, varsSrv, varsWait, varsSel, varsExtRest>>

\* the manager's methods, lookups included, called one after the other
NextLookup ==
    \E t \in Threads :
        /\ Quiet(t)
        /\ \/ Step(t)
           \/ CallGetNode(t)
           \/ GetNodeLookup(t)
           \/ GetNodeReturn(t)
           \/ CallGetNodesIDs(t)
           \/ GetNodesIDsRange(t)

SpecLookup == Init /\ [][NextLookup]_vars

(***************************************************************************)
(* Properties.                                                             *)
(***************************************************************************)
\* goroutine t's request op returns in this step
Returns(t, op) == call[t].op = op /\ call'[t].op = "none"

\* the name was a key of the node map when the request was issued
WasKey(t) == call[t].arg \in DOMAIN call[t].pre.nodes

\* the manager's node map and processes are as they were when t's request
\* was issued
AsBefore(t) == nodes' = call[t].pre.nodes /\ procs' = call[t].pre.procs

\* C1: an AddNode whose non-empty name is a key of the node map returns the
\* name-conflict error, spawns no process and leaves the node map as it was
\* (requests issued one after the other).
C1_NameConflict ==
    [][\A t \in Threads :
         (Returns(t, "AddNode") /\ call[t].arg # "" /\ WasKey(t))
             => (last'.res = "NameConflict" /\ AsBefore(t))]_vars

C1_Witness ==
    /\ last.op = "AddNode" /\ last.had /\ last.res = "NameConflict"
    /\ last.arg \in DOMAIN nodes

\* the ids AddNode settled on
AddIds == {adds[i].id : i \in DOMAIN adds}

\* C2: when every AddNode so far was made without a name, the assigned names
\* are pairwise distinct and are the numbers 1..N.
C2_ConsecutiveNames ==
    (\A i \in DOMAIN adds : adds[i].explicit = "")
        => /\ \A i, j \in DOMAIN adds : i # j => adds[i].id # adds[j].id
           /\ AddIds = {Sprint(k) : k \in 1..Len(adds)}

\* C3 (as claimed): RemoveNode of a name that is no key fails with not-found
\* and changes nothing; of two successive RemoveNode of a name that was a key,
\* the first succeeds and the second fails with not-found.
C3_RemoveTwice ==
    [][\A t \in Threads :
         Returns(t, "RemoveNode") =>
           /\ ~WasKey(t) => (last'.res = "NotFound" /\ AsBefore(t))
           /\ (last.op = "RemoveNode" /\ last.arg = call[t].arg /\ last.had)
                 => (last.res = "ok" /\ last'.res = "NotFound")]_vars

\* C3 (amended): ... the first returns success or, when the signal could not
\* be delivered, the signal error, and the second fails with not-found.
C3_RemoveTwiceAmended ==
    [][\A t \in Threads :
         Returns(t, "RemoveNode") =>
           /\ ~WasKey(t) => (last'.res = "NotFound" /\ AsBefore(t))
           /\ (last.op = "RemoveNode" /\ last.arg = call[t].arg /\ last.had)
                 => (last.res \in {"ok", "ProcessError"} /\ last'.res = "NotFound")
           /\ WasKey(t) => (last'.res \in {"ok", "ProcessError"}
                              /\ call[t].arg \notin DOMAIN nodes')]_vars

C3_Witness ==
    /\ prev.op = "RemoveNode" /\ prev.had /\ prev.res = "ProcessError"
    /\ last.op = "RemoveNode" /\ last.arg = prev.arg /\ last.res = "NotFound"

\* C4: a process receives at most one termination signal, and no two
\* RemoveNode requests succeed on the same node.
C4_RemoveOnce ==
    /\ \A p \in DOMAIN procs : procs[p].sigterm <= 1
    /\ ~ /\ prev.op = "RemoveNode" /\ prev.res = "ok"
         /\ last.op = "RemoveNode" /\ last.res = "ok"
         /\ prev.node = last.node

\* goroutine t is inside AddNode: it has taken a step of it and not returned
InAddNode(t) ==
    pc[t] \in {"add_incr_load", "add_incr_store", "add_name", "add_files",
               "add_spawn", "add_record"}

\* C5: no two AddNode calls are in progress at once.
C5_AddNodeExclusive ==
    \A t, u \in Threads : t # u => ~(InAddNode(t) /\ InAddNode(u))

\* C6: when Stop returns, every node that was in the map has had its
\* termination requested and is no longer in the map, whatever Stop returns.
C6_StopBestEffort ==
    [][\A t \in Threads :
         Returns(t, "Stop") =>
           \A n \in DOMAIN call[t].pre.nodes :
             /\ n \notin DOMAIN nodes'
             /\ procs'[call[t].pre.nodes[n].pid].signalled >= 1]_vars

\* goroutine t is inside the function stopOnce runs
InTeardown(t) ==
    \/ pc[t] \in {"srvstop_close", "srvstop_nw", "srvstop_donec"}
    \/ stack[t] # <<>> /\ stack[t][Len(stack[t])] = "srvstop_donec"

\* C7: stop() called by several goroutines runs one teardown: at most one
\* goroutine is ever inside it, lc.nw.Stop is called at most once, and a caller
\* has returned only when that one teardown has completed (stopc closed,
\* lc.nw.Stop called once and returned, donec closed).
C7_SingleTeardown ==
    /\ stopCalls <= 1
    /\ \A t, u \in Threads : t # u => ~(InTeardown(t) /\ InTeardown(u))
    /\ \A t \in Threads :
         pc[t] = "stopped" =>
           /\ stopOnce = "done" /\ stopc /\ donec /\ stopCalls = 1
           /\ \A u \in Threads : ~InTeardown(u)

C7_Witness ==
    /\ \A t \in Threads : pc[t] = "stopped"
    /\ stopCalls = 1 /\ Len(procs) = NumNodes

\* C8: when stopc is closed while waitForHealthy waits in its select, the
\* wait returns the aborted error and readyc stays open.
C8_AbortOnStop ==
    (stopInWait /\ pc[StartThread] \notin {"wfh_select"})
        => /\ pc[StartThread] \in {"start_healthy", "start_defer", "done"}
           /\ pc[StartThread] = "start_healthy" => res[StartThread] = "aborted"
           /\ errc = <<"aborted">> \/ pc[StartThread] = "start_healthy"
           /\ ~readyc

\* C9: stop() never crashes, and when it has returned every process that was
\* spawned has had its termination requested.
C9_StopSafe ==
    /\ fatal = ""
    /\ \A t \in Threads :
         pc[t] = "stopped" => \A p \in DOMAIN procs : procs[p].signalled >= 1

\* C10: waitNode returns true only when the P, C and X queries of one round
\* all answered bootstrapped, and false only once the timeout has elapsed.
C10_WaitNode ==
    wnPc = "done" =>
        /\ wnRes = TRUE => round = <<"bootstrapped", "bootstrapped", "bootstrapped">>
        /\ wnRes = FALSE => (elapsed > Timeout
                              /\ round # <<"bootstrapped", "bootstrapped", "bootstrapped">>)

C10_Witness ==
    wnPc = "done" /\ wnRes = TRUE /\ elapsed > 0 /\ elapsed <= Timeout

\* C11: Ready closes readyCh only when waitNode found every node healthy:
\* when one node timed out, readyCh is never closed.
C11_ReadyIffAllHealthy ==
    readyCh => rdDown = {}

\* C12: readyc is one-shot: once closed it stays closed, and it is closed only
\* by the first run of readycCloseOnce, in a waitForHealthy whose health wait
\* delivered success (nil) on hc.
C12_ReadyOneShot ==
    [][/\ readyc => readyc'
       /\ (~readyc /\ readyc') =>
             /\ hcErr = "healthy"
             /\ pc[StartThread] = "wfh_ready"
             /\ ~readycCloseOnce /\ readycCloseOnce']_vars

C12_Witness ==
    readyc /\ readycCloseOnce /\ hcErr = "healthy" /\ pc[StartThread] = "done"

\* C13: a second start() on the same instance makes no second transition:
\* no node is spawned beyond those of the first network, and donec is not
\* closed a second time.
C13_StartOnce ==
    /\ Len(procs) <= NumNodes
    /\ fatal # "close of closed channel"

\* C14: each key of the node map is the id stored in the handle it maps to.
C14_KeyIsName ==
    \A n \in DOMAIN nodes : nodes[n].id = n

C14_Witness ==
    /\ \E n \in DOMAIN nodes : n \in ExplicitNames
    /\ \E n \in DOMAIN nodes : n \notin ExplicitNames
    /\ \E t \in Threads : pc[t] = "rm_delete"

\* C15: a successful AddNode never replaces an entry of the node map: it
\* makes the map one entry larger (requests issued one after the other).
C15_AddNeverReplaces ==
    [][\A t \in Threads :
         (Returns(t, "AddNode") /\ last'.res = "ok")
             => Cardinality(DOMAIN nodes') = Cardinality(DOMAIN call[t].pre.nodes) + 1]_vars

\* the positions in adds of the names AddNode generated
Generated == {i \in DOMAIN adds : adds[i].explicit = ""}

\* C16: over requests issued one after the other, no generated name is
\* assigned twice, also not after its node was removed: the generated names
\* are pairwise distinct, in increasing order and below the counter.
C16_CounterNeverReused ==
    /\ \A i, j \in Generated : i # j => adds[i].id # adds[j].id
    /\ \A i \in Generated :
         \E k \in 1..(nextIntNodeID - 1) :
           /\ adds[i].id = Sprint(k)
           /\ \A j \in Generated : j < i => \E l \in 1..(k - 1) : adds[j].id = Sprint(l)

C16_Witness ==
    /\ Len(adds) = 2 /\ Generated = {1, 2}
    /\ prev.op = "RemoveNode" /\ prev.res = "ok" /\ prev.arg = adds[1].id
    /\ last.op = "AddNode" /\ last.res = "ok" /\ last.arg = ""
    /\ DOMAIN nodes = {adds[2].id}

\* C20: AddNode spawns the process only when all the node's files have been
\* written, and an AddNode that fails in a validation or a file write has
\* spawned no process and recorded no handle (requests one after the other).
C20_FilesBeforeSpawn ==
    [][/\ Len(procs') > Len(procs) =>
             \E t \in AllThreads :
               /\ pc[t] = "add_spawn"
               /\ files[t] \in {NodeFiles(TRUE), NodeFiles(FALSE)}
       /\ \A t \in Threads :
             (Returns(t, "AddNode") /\ last'.res \in {"Validation", "FileError"})
                 => AsBefore(t)]_vars

C20_Witness ==
    /\ prev.op = "AddNode" /\ prev.res = "ok"
    /\ last.op = "AddNode" /\ last.res = "FileError"
    /\ Len(procs) = 1 /\ Cardinality(DOMAIN nodes) = 1

\* C18: when shutdownOnSignal finds its signal channel closed (it receives
\* the zero value), it does nothing: it does not call Stop, and it closes
\* neither the signal channel (a second time) nor closedOnShutdownChan.
C18_ClosedDoesNothing ==
    sig = "nil" =>
        /\ exStops.shutdown = 0
        /\ ~closedOnShutdownCh
        /\ fatal = ""

\* C19: the (i+1)-th call of NextColor on a fresh picker returns
\* supportedColors[i mod len(supportedColors)]: consecutive calls within one
\* cycle return different colors, and after the last color comes the first.
C19_RoundRobin ==
    \A p \in Pickers :
      /\ \A i \in 0..(Len(returned[p]) - 1) :
           returned[p][i + 1] = supportedColors[(i % NumColors) + 1]
      /\ \A i, j \in 1..Len(returned[p]) :
           (i < j /\ (i - 1) \div NumColors = (j - 1) \div NumColors)
               => returned[p][i] # returned[p][j]
      /\ \A i \in 1..(Len(returned[p]) - 1) :
           returned[p][i] = supportedColors[NumColors]
               => returned[p][i + 1] = supportedColors[1]

C19_Witness ==
    \E p \in Pickers : Len(returned[p]) = Cycles * NumColors

\* what holds of the stream in every state
StreamSafe ==
    /\ ctxDone => printed = printedAtDone
    /\ chClosed => ticker = "stopped"
    /\ (ssPc = "returned" /\ ssRes = "nil") =>
          /\ chClosed /\ ctxDone /\ ssDonec /\ wPc = "exit"
          /\ ticker = "stopped" /\ ~cliOpen

\* C17: once the stream's context is cancelled no further snapshot is
\* delivered, the ticker stops and the stream ends; once ch is closed,
\* streamStatusFunc prints nothing more, and it returns, its watcher
\* goroutine having finished.
C17_StreamStops ==
    /\ []StreamSafe
    /\ [][chClosed => printed' = printed]_vars
    /\ (ctxDone /\ prodPc # "none") ~> (chClosed /\ ticker = "stopped")
    /\ chClosed ~> (ssPc = "returned" /\ ssRes = "nil")

C17_Witness ==
    /\ ssPc = "returned" /\ ssRes = "nil"
    /\ printed > 0 /\ printed < sent
    /\ sigc = 0 /\ printedAtDone = printed

\* C21: in waitNode a failed or not-bootstrapped query is never returned as
\* an error (waitNode returns a boolean), and whichever of the P, C and X
\* queries failed, the next round starts only after the poll sleep: the
\* failed query is followed by time.Sleep(pollTime), which lets PollTime pass
C21_RetryAtPollTick ==
    [][ /\ (wnPc \in {"P", "C", "X"} /\ ~nodeIsUp') => wnPc' = "sleep"
        /\ (wnPc = "sleep" /\ ~nodeIsUp) => elapsed' = elapsed + PollTime
        /\ wnPc' = "done" => wnRes' \in BOOLEAN ]_vars

\* C22: waitForHealthy's outcome is that of a signal that has occurred: it
\* returns the aborted error only when stopc is closed, the context error
\* only when the deadline has expired, the health error only when hc
\* delivered an error, and nil, with readyc closed, only when hc delivered
\* no error; when a single signal has occurred the outcome is that signal's;
\* and readyc is closed on no other outcome than nil
C22_SelectOutcome ==
    pc[StartThread] = "start_healthy" =>
        LET r == res[StartThread] IN
        /\ r = "aborted" => (stopc /\ "stopc" \in selReady)
        /\ r = "DeadlineExceeded" => "ctx" \in selReady
        /\ r = "HealthError" => ("hc" \in selReady /\ hcErr = "unhealthy")
        /\ r = "ok" => ("hc" \in selReady /\ hcErr = "healthy" /\ readyc)
        /\ selReady = {"stopc"} => r = "aborted"
        /\ selReady = {"ctx"} => r = "DeadlineExceeded"
        /\ (selReady = {"hc"} /\ hcErr = "unhealthy") => r = "HealthError"
        /\ (selReady = {"hc"} /\ hcErr = "healthy") => r \in {"ok", "GetAllNodesError"}
        /\ r # "ok" => ~readyc

C22_Witness ==
    /\ pc[StartThread] = "start_healthy"
    /\ res[StartThread] = "ok"
    /\ selReady = {"hc"} /\ hcErr = "healthy" /\ readyc

\* C23: the health wait leaves no polling behind: once a node's timeout has
\* been reported on errorCh, the goroutine Ready started polls no further
\* node (it terminates instead of blocking or going on with its loop)
C23_NoPollingLeft ==
    [][rdDown # {} => rdVisited' = rdVisited]_vars

\* C24: stop() keeps its order: lc.nw.Stop is invoked only after stopc was
\* closed, and a caller of stop() has returned only when start() has
\* finished and closed donec
C24_StopOrder ==
    /\ stopCalls >= 1 => stopc
    /\ \A t \in Threads :
         /\ pc[t] \in {"stop_range", "stop_err", "srvstop_donec"} => stopc
         /\ pc[t] = "stopped" => (donec /\ pc[StartThread] = "done")

C24_Witness ==
    /\ \E t \in Threads : pc[t] = "stopped"
    /\ stopc /\ donec /\ stopCalls = 1
    /\ errc = <<"aborted">>
    /\ Len(procs) > 0
    /\ \A p \in DOMAIN procs : procs[p].signalled = 1

\* The state of the control server, from what the claim names: Stopped when
\* stop() has completed, Failed when a startup error was recorded on errc,
\* Ready when readyc is closed, Starting when start() runs, else Created.
PhaseOf(once, errs, ready, startPc) ==
    IF once = "done" THEN "Stopped"
    ELSE IF errs # <<>> THEN "Failed"
    ELSE IF ready THEN "Ready"
    ELSE IF startPc # "idle" THEN "Starting"
    ELSE "Created"

Phase == PhaseOf(stopOnce, errc, readyc, pc[StartThread])

PhaseNext == PhaseOf(stopOnce', errc', readyc', pc'[StartThread])

\* C25 (as stated): the server moves only along Created -> Starting ->
\* Ready -> Stopped and Starting -> Failed; Ready and Failed are never both
\* reached, and at most one error is recorded.
C25_Lifecycle ==
    [][/\ Phase # PhaseNext =>
            <<Phase, PhaseNext>> \in {<<"Created", "Starting">>,
                                      <<"Starting", "Ready">>,
                                      <<"Ready", "Stopped">>,
                                      <<"Starting", "Failed">>}
       /\ ~(readyc' /\ errc' # <<>>)
       /\ Len(errc') <= 1]_vars

\* C25 (amended): as stated, with the transition Failed -> Stopped: a start
\* that stop() aborted records the aborted error and stop() then completes.
C25_LifecycleAmended ==
    [][/\ Phase # PhaseNext =>
            <<Phase, PhaseNext>> \in {<<"Created", "Starting">>,
                                      <<"Starting", "Ready">>,
                                      <<"Ready", "Stopped">>,
                                      <<"Starting", "Failed">>,
                                      <<"Failed", "Stopped">>}
       /\ ~(readyc' /\ errc' # <<>>)
       /\ Len(errc') <= 1]_vars

C25_Witness ==
    /\ Phase = "Stopped"
    /\ errc = <<"aborted">>
    /\ ~readyc /\ donec

\* C26: RemoveNode closes the node's websocket client before it signals the
\* node's process: a termination signal is requested only of a process whose
\* client connection is already closed, whether or not the signal is delivered
C26_CloseBeforeSignal ==
    [][\A p \in DOMAIN procs :
          procs'[p].signalled > procs[p].signalled => procs[p].wsClosed]_vars

C26_Witness ==
    /\ last.op = "RemoveNode" /\ last.res = "ProcessError"
    /\ \E p \in DOMAIN procs :
         procs[p].wsClosed /\ procs[p].signalled = 1 /\ procs[p].sigterm = 0

\* C27: a RemoveNode for a name that is a key of the node map returns success
\* or the signal-delivery error, without any further step after the signal,
\* and in both cases the name is no key of the map when it returns: a
\* following GetNode for that name fails with not-found
C27_RemovedNotAddressable ==
    [][\A t \in Threads :
         /\ (Returns(t, "RemoveNode") /\ WasKey(t)) =>
               /\ last'.res \in {"ok", "ProcessError"}
               /\ call[t].arg \notin DOMAIN nodes'
               /\ pc[t] = "rm_signal"
         /\ (Returns(t, "GetNode") /\ last.op = "RemoveNode"
                /\ last.arg = call[t].arg /\ last.had) =>
               last'.res = "NotFound"]_vars

C27_Witness ==
    /\ prev.op = "RemoveNode" /\ prev.had /\ prev.res = "ProcessError"
    /\ last.op = "GetNode" /\ last.arg = prev.arg /\ last.res = "NotFound"
    /\ \E p \in DOMAIN procs : procs[p].signalled = 1 /\ procs[p].sigterm = 0

\* C28: when a Stop that follows AddNode and RemoveNode calls returns no
\* error, the node map is empty, every process that was in the map has been
\* sent exactly one termination signal, which was delivered, and no other
\* process was signalled; a Stop right after a successful Stop returns no
\* error and signals no process
C28_StopThenStop ==
    [][\A t \in Threads :
         LET pre == call[t].pre
             pids == {pre.nodes[n].pid : n \in DOMAIN pre.nodes}
         IN  /\ (Returns(t, "Stop") /\ last'.res = "ok") =>
                   /\ DOMAIN nodes' = {}
                   /\ \A p \in pids :
                        procs'[p].signalled = 1 /\ procs'[p].sigterm = 1
                   /\ \A p \in DOMAIN pre.procs \ pids : procs'[p] = pre.procs[p]
             /\ (Returns(t, "Stop") /\ last.op = "Stop" /\ last.res = "ok") =>
                   (last'.res = "ok" /\ procs' = pre.procs /\ DOMAIN nodes' = {})]_vars

C28_Witness ==
    /\ prev.op = "Stop" /\ prev.res = "ok"
    /\ last.op = "Stop" /\ last.res = "ok"
    /\ Len(procs) = 1 /\ procs[1].sigterm = 1 /\ procs[1].signalled = 1

\* NewNetwork has returned an error to start(): start() holds it or has
\* recorded it on errc
NewNetworkFailed ==
    \/ pc[StartThread] = "start_nw" /\ res[StartThread] # "ok"
    \/ errc # <<>> /\ errc[1] \in {"Validation", "ProcessError", "NameConflict"}

C30_PureLookups ==
    [][\A t \in Threads :
         /\ (call[t].op \in {"GetNode", "GetNodesIDs"}
               \/ call'[t].op \in {"GetNode", "GetNodesIDs"}) =>
               (nodes' = nodes /\ procs' = procs /\ nextIntNodeID' = nextIntNodeID)
         /\ Returns(t, "GetNode") =>
               /\ last'.res = IF call[t].arg \in DOMAIN nodes THEN "ok" ELSE "NotFound"
               /\ last'.res = "ok" => last'.node = nodes[call[t].arg].pid
         /\ Returns(t, "GetNodesIDs") =>
               /\ last'.res = "ok"
               /\ {ks'[t][i] : i \in DOMAIN ks'[t]} = DOMAIN nodes
               /\ Len(ks'[t]) = Cardinality(DOMAIN nodes)]_vars

C30_Witness ==
    /\ prev.op = "GetNodesIDs" /\ prev.res = "ok"
    /\ \E t \in Threads : Len(ks[t]) = 1 /\ ks[t][1] \in DOMAIN nodes
    /\ last.op = "GetNode" /\ last.res = "ok" /\ last.node = 1

\* C31: GetNodesIDs lists the names in the order in which their nodes were
\* added (processes are numbered in the order they were spawned, so the
\* listed nodes' pids increase); the list is then a function of the map, so
\* two calls with no mutation in between return the same sequence
C31_InsertionOrder ==
    [][\A t \in Threads :
         Returns(t, "GetNodesIDs") =>
           \A i, j \in DOMAIN ks'[t] :
             i < j => nodes[ks'[t][i]].pid < nodes[ks'[t][j]].pid]_vars

\* C32: waitNode always terminates, whatever the bootstrap queries answer:
\* it ends with true in a round whose three queries answered bootstrapped,
\* no earlier round having done so, or with false once the elapsed time
\* exceeds the timeout
C32_WaitNodeTerminates ==
    /\ <>(wnPc = "done")
    /\ [](wnPc = "done" =>
            \/ wnRes = TRUE
                 /\ round = <<"bootstrapped", "bootstrapped", "bootstrapped">>
            \/ wnRes = FALSE /\ elapsed > Timeout)
    /\ [][round = <<"bootstrapped", "bootstrapped", "bootstrapped">>
            => wnPc' \in {"sleep", "loop", "done"} /\ round' = round]_vars

C32_Witness ==
    wnPc = "done" /\ wnRes = FALSE /\ elapsed > Timeout /\ round = <<"error">>

\* C33: in the example programs shutdownOnSignal closes closedOnShutdownCh
\* only after the network's Stop has returned, and run() returns nil, and
\* runs its deferred Stop on that path, only after that channel is closed:
\* the network is stopped before run() returns on the signal path
C33_StoppedBeforeReturn ==
    /\ closedOnShutdownCh => (exStops.shutdown >= 1 /\ sigPc = "end")
    /\ runRes = "nil" => (closedOnShutdownCh /\ exStops.shutdown >= 1)
    /\ (runRes = "nil" /\ exStops.defer >= 1) => runPc = "returned"

C33_Witness ==
    /\ runPc = "returned" /\ runRes = "nil"
    /\ sig \in Signals
    /\ closedOnShutdownCh
    /\ exStops.shutdown = 1 /\ exStops.defer = 1

\* C34: start() closes donec once, as its last step on every path, and
\* never blocks when it records its error: errc has room whenever start()
\* is about to send, and when start() is past its sends errc holds the one
\* error of the failed network creation or health wait and nothing else; a
\* stop() waiting on donec finds it closed once start() has finished
C34_StartReleasesStop ==
    LET st == pc[StartThread]
        r == res[StartThread]
    IN  /\ (st \in {"start_nw", "start_healthy"} /\ r # "ok") => Len(errc) < ErrcCap
        /\ st \in {"start_defer", "done"} =>
              errc = IF r # "ok" THEN <<r>> ELSE <<>>
        /\ st \notin {"start_defer", "done"} => errc = <<>>
        /\ donec <=> st = "done"
        /\ fatal # "close of closed channel"

C34_Witness ==
    /\ pc[StartThread] = "done" /\ donec
    /\ errc = <<"DeadlineExceeded">>
    /\ \E t \in Threads : pc[t] = "stopped"

\* C35: whenever readyc is closed the readiness snapshot is complete: every
\* node of the network is among the nodes the snapshot took, and for each of
\* those the nodeInfos entry of its name has URI and node ID filled in and
\* apiClis holds its API client; readyc is closed only after these writes
C35_SnapshotComplete ==
    /\ readyc =>
         /\ DOMAIN nodes \subseteq apiClis
         /\ apiClis \subseteq DOMAIN nodeInfos
         /\ \A n \in apiClis : nodeInfos[n].uri /\ nodeInfos[n].id
    /\ pc[StartThread] = "wfh_ready" =>
         /\ DOMAIN nodes \subseteq apiClis
         /\ \A n \in apiClis : nodeInfos[n].uri /\ nodeInfos[n].id

C35_Witness ==
    /\ readyc
    /\ DOMAIN nodes = NodeNames /\ apiClis = NodeNames
    /\ \A n \in NodeNames : nodeInfos[n].uri /\ nodeInfos[n].id

\* C36: every AddNode advances the name counter by exactly one, with or
\* without an explicit name and whether it succeeds or fails, and a failed
\* AddNode changes nothing else in the manager: the node map and the
\* processes are as before the call (requests issued one after the other)
C36_CounterAdvancesByOne ==
    [][\A t \in Threads :
         Returns(t, "AddNode") =>
           /\ nextIntNodeID' = call[t].pre.counter + 1
           /\ last'.res # "ok" => AsBefore(t)]_vars

C36_Witness ==
    /\ prev.op = "AddNode" /\ prev.arg = "" /\ prev.res = "ok"
    /\ last.op = "AddNode" /\ last.arg # "" /\ last.res \notin {"ok", "NameConflict"}
    /\ nextIntNodeID = 3
    /\ DOMAIN nodes = {"1"}

\* C37: streamStatusFunc never returns while its signal-watcher goroutine
\* is still running: whenever it has returned after starting the goroutine,
\* also when opening the stream failed, the request context is cancelled and
\* the goroutine has closed donec and ended
C37_NoReturnWhileWatching ==
    (ssPc = "returned" /\ wPc # "none") => (wPc = "exit" /\ ctxDone /\ ssDonec)

============================================================================
